---- MODULE Spec2Model ----
(***************************************************************************)
(* Model of picow (src/main.rs): an embassy firmware for the Pico W that   *)
(* samples an ADC channel into the atomic ADC_VALUE, brings the wireless   *)
(* link up (join with retry, then wait for the address configuration),     *)
(* and serves "/" and "/metrics" from a pool of WEB_TASK_POOL_SIZE tasks.  *)
(*                                                                         *)
(* The executor is cooperative: a task runs from one .await to the next    *)
(* without interleaving, so every action below is the code between two     *)
(* suspension points of one task.  Time is a global Tick that counts the   *)
(* armed timers down; a timer that reached 0 lets its task resume.         *)
(* Bytes are ASCII codes, strings are sequences of bytes.  A panic halts    *)
(* the device (panic_probe): no task takes a step after it.                *)
(***************************************************************************)
EXTENDS Integers, Sequences, FiniteSets, TLC

VARIABLES
    ADC_VALUE,      \* static ADC_VALUE: AtomicU16
    lastPublished,  \* history: the value of the last completed store (0 before any)
    lastResult,     \* history: outcome of the adc.read before the current sleep
    sensor,         \* read_sensor: [pc, timer, slept]
    mainPc,         \* main: the step it is suspended at
    mainTimer,      \* main: remaining time of its Timer::after
    mainSlept,      \* history: ticks elapsed since main armed its timer (capped)
    joinAttempts,   \* history: number of control.join calls that returned
    joinFailures,   \* history: number of those that returned Err
    joinOk,         \* history: a join returned Ok
    configOk,       \* history: stack.is_config_up() returned true
    configUp,       \* embassy_net stack: the IPv4 configuration is applied
    powerMode,      \* cyw43 control: power management mode
    wifiTask,       \* wifi_task: "unspawned" or "running"
    netTask,        \* net_task: "unspawned" or "running"
    spawnCount,     \* history: must_spawn calls per task function
    panicked,       \* main panicked: a must_spawn or an unwrap failed
    env,            \* the build: which environment variables were set
    webId,          \* main: the id of the worker spawn loop
    led,            \* control.gpio_set(0, true) has been done
    slot,           \* web_task instances, by id
    bufs,           \* the tcp_rx / tcp_tx / http buffers, by owner
    pending,        \* clients whose connection waits to be accepted
    sent            \* history: per slot, the path the slot's client sent

vars == << ADC_VALUE, lastPublished, lastResult, sensor, mainPc, mainTimer,
           mainSlept, joinAttempts, joinFailures, joinOk, configOk, configUp,
           powerMode, wifiTask, netTask, spawnCount, panicked, env, webId, led,
           slot, bufs, pending, sent >>

sensorVars == << ADC_VALUE, lastPublished, lastResult, sensor >>
mainVars == << mainPc, mainTimer, mainSlept, joinAttempts, joinFailures, joinOk,
               configOk, powerMode, wifiTask, netTask, spawnCount, panicked,
               env, webId, led >>
webVars == << slot, bufs, pending, sent >>

----------------------------------------------------------------------------
(* Bounds of the model *)

\* consecutive join failures the radio may report before it lets a join succeed
MaxJoinFailures == 2
\* client connections that may be open or queued at the same time
MaxClients == 2
\* the same, for the pool specification (one more than the pool has slots)
PoolClients == 9
\* cap of the history counters of elapsed ticks
MaxSlept == 2

\* the readings the ADC delivers in the model
SensorValues == {7, 300}

----------------------------------------------------------------------------
(* Program constants *)

\* a pool of one task more than the 8 of the code
NineTasks == 8 + 1

WEB_TASK_POOL_SIZE == 8

\* AtomicU16
GaugeMax == 65535

\* Duration::from_secs: a Tick is one second
from_secs(secs) == secs

\* a sleep of half the interval
ShortInterval == from_secs(1)

\* Timer::after(Duration::from_secs(2)) of read_sensor
SampleInterval == from_secs(2)

\* a join loop that retries at once
NoDelay == from_secs(0)

\* Timer::after(Duration::from_secs(1)) of the join loop
JoinRetryDelay == from_secs(1)

\* a configuration wait loop that polls again at once
NoPollDelay == from_secs(0)

\* Timer::after(Duration::from_secs(1)) of the configuration wait loop
ConfigPollDelay == from_secs(1)

HEADER == <<
    35, 32, 72, 69, 76, 80, 32, 97, 100, 99, 95, 118, 97, 108, 117, 101,
    32, 84, 104, 101, 32, 118, 97, 108, 117, 101, 32, 114, 101, 97, 100, 32,
    102, 114, 111, 109, 32, 116, 104, 101, 32, 65, 68, 67, 10, 35, 32, 84,
    89, 80, 69, 32, 97, 100, 99, 95, 118, 97, 108, 117, 101, 32, 103, 97,
    117, 103, 101, 10 >>

METRICS == << <<
    97, 100, 99, 95, 118, 97, 108, 117, 101, 123, 115, 101, 110, 115, 111, 114,
    61, 34, 77, 81, 45, 50, 34, 125, 32 >> >>

Min(a, b) == IF a < b THEN a ELSE b

----------------------------------------------------------------------------
(* Shared Gauge Cell: ADC_VALUE.store / ADC_VALUE.load *)

\* a store that writes the high byte and leaves the low byte of the old word
TornStore(old, value) == ((value \div 256) * 256 + (old % 256)) % (GaugeMax + 1)

\* AtomicU16::store(value, Relaxed): the whole word is replaced
AtomicStore(old, value) == value % (GaugeMax + 1)

\* AtomicU16::load(Relaxed)
AtomicLoad(cell) == cell

\* the cell after a swap(0, Relaxed): a read that resets the gauge
CellAfterSwap(cell) == 0

\* the cell after a load(Relaxed): a load writes nothing
CellAfterLoad(cell) == cell

----------------------------------------------------------------------------
(* read_sensor *)

\* what adc.read(&mut channel).await can return
AdcResults == [ok : {TRUE}, value : SensorValues] \cup {[ok |-> FALSE, value |-> 0]}

\* a match whose Err arm resets the gauge
MatchResultReset(result, cell) ==
    IF result.ok THEN AtomicStore(cell, result.value) ELSE AtomicStore(cell, 0)

\* match result { Ok(value) => ADC_VALUE.store(value), Err(_) => warn }
MatchResult(result, cell) ==
    IF result.ok THEN AtomicStore(cell, result.value) ELSE cell

\* one iteration up to the Timer::after: the read completes, the match runs,
\* the timer is armed
read_sensor_read ==
    /\ ~panicked
    /\ sensor.pc = "read"
    /\ \E result \in AdcResults :
        /\ ADC_VALUE' = MatchResult(result, ADC_VALUE)
        /\ lastPublished' = IF result.ok THEN result.value ELSE lastPublished
        /\ lastResult' = IF result.ok THEN "ok" ELSE "err"
    /\ sensor' = [pc |-> "sleep", timer |-> SampleInterval, slept |-> 0]
    /\ UNCHANGED << mainVars, configUp, webVars >>

\* the Timer::after has elapsed: the loop starts the next adc.read
read_sensor_wake ==
    /\ ~panicked
    /\ sensor.pc = "sleep"
    /\ sensor.timer = 0
    /\ sensor' = [sensor EXCEPT !.pc = "read", !.slept = 0]
    /\ lastResult' = "none"
    /\ UNCHANGED << ADC_VALUE, lastPublished, mainVars, configUp, webVars >>

----------------------------------------------------------------------------
(* Time *)

\* a timer that never counts down
DecStuck(t) == t

Dec(t) == IF t > 0 THEN t - 1 ELSE 0

\* one time unit passes: every armed timer counts down
Tick ==
    /\ sensor' = IF sensor.pc = "sleep"
                 THEN [sensor EXCEPT !.timer = Dec(@),
                                     !.slept = Min(@ + 1, MaxSlept)]
                 ELSE sensor
    /\ mainTimer' = Dec(mainTimer)
    /\ mainSlept' = IF mainPc \in {"join_sleep", "config_sleep"}
                    THEN Min(mainSlept + 1, MaxSlept) ELSE mainSlept
    /\ UNCHANGED << env, ADC_VALUE, lastPublished, lastResult, mainPc, joinAttempts,
                    joinFailures, joinOk, configOk, configUp, powerMode, wifiTask,
                    netTask, spawnCount, panicked, webId, led, webVars >>

----------------------------------------------------------------------------
(* Task pools of the executor *)

\* #[embassy_executor::task] gives one instance, pool_size = N gives N
PoolSize(task) == IF task = "web_task" THEN WEB_TASK_POOL_SIZE ELSE 1

\* Spawner::must_spawn panics when the task's pool has no free instance
SpawnFails(task) == spawnCount[task] >= PoolSize(task)

Spawned(task) == [spawnCount EXCEPT ![task] = @ + 1]

----------------------------------------------------------------------------
(* Connection driver tasks *)

\* a driver task whose runner returns at once: the task completes
RunnerReturns == "returned"

\* wifi_task and net_task are -> !: runner.run().await never returns, a
\* driver task that was spawned is running from then on
RunnerRun == "running"

\* net_task drives the stack; the stack applies the static IPv4 configuration
net_task ==
    /\ ~panicked
    /\ netTask = "running"
    /\ ~configUp
    /\ configUp' = TRUE
    /\ UNCHANGED << sensorVars, mainVars, webVars >>

----------------------------------------------------------------------------
(* Metrics Responder: impl picoserve::response::Content for Prometheus *)

RECURSIVE Digits(_)
\* the decimal digits of v, most significant first
Digits(v) == IF v < 10 THEN << 48 + v >> ELSE Digits(v \div 10) \o << 48 + (v % 10) >>

RECURSIVE PadZero(_, _)
\* the 0 flag with a width: zeros in front up to the width, never a truncation
PadZero(s, width) == IF Len(s) >= width THEN s ELSE PadZero(<< 48 >> \o s, width)

\* a rendering of width 4
Format04(v) == PadZero(Digits(v), 4)

\* write!(value, "{:05}", adc_value)
Format05(v) == PadZero(Digits(v), 5)

RECURSIVE SumLen(_, _)
\* METRICS.iter().map(|m| m.len()).sum()
SumLen(ms, k) == IF k > Len(ms) THEN 0 ELSE Len(ms[k]) + SumLen(ms, k + 1)

content_type == "text/plain; version=0.0.4"

content_length == Len(HEADER) + SumLen(METRICS, 1) + 5

\* write_content makes Len(METRICS) + 2 calls of writer.write_all; the last
\* one follows the load of ADC_VALUE
LastWrite == Len(METRICS) + 1

\* a write_content that loads ADC_VALUE before it writes the header
LoadsAtStart(step) == step = 0

\* let adc_value = ADC_VALUE.load(..) stands between the loop over METRICS and
\* the write of the value: the load belongs to the last write_all
LoadsAt(step) == step = LastWrite

\* a write_content that ends the metric line with a newline
write_content_newline(step, adc_value) ==
    IF step = 0 THEN HEADER
    ELSE IF step <= Len(METRICS) THEN METRICS[step]
    ELSE Format05(adc_value) \o << 10 >>

\* the bytes of the step-th write_all of write_content, given the loaded value
write_content(step, adc_value) ==
    IF step = 0 THEN HEADER
    ELSE IF step <= Len(METRICS) THEN METRICS[step]
    ELSE Format05(adc_value)

----------------------------------------------------------------------------
(* AppProps::build_app and the responses of the routes *)

HelloWorld == << 72, 101, 108, 108, 111, 32, 87, 111, 114, 108, 100 >>

Paths == {"/", "/metrics"}

\* Router::new().route("/", ..).route("/metrics", ..)
build_app(path) ==
    IF path = "/" THEN "hello"
    ELSE IF path = "/metrics" THEN "prometheus"
    ELSE "not_found"

\* a Config that sets no timeout for the first request of a connection
StartReadRequestNone == [some |-> FALSE, secs |-> 0]

\* picoserve::Timeouts of main's picoserve::Config; some = FALSE stands for None
StartReadRequest == [some |-> TRUE, secs |-> 5]
PersistentStartReadRequest == [some |-> TRUE, secs |-> 1]

----------------------------------------------------------------------------
(* web_task: the worker slots *)

Slots == 0 .. (WEB_TASK_POOL_SIZE - 1)

\* buffers that are statics shared by all instances of the task
SharedBuffer(id) == 0

\* tcp_rx_buffer, tcp_tx_buffer and http_buffer are locals of web_task: every
\* instance of the task owns its own three arrays
BufferOf(id) == id

Unspawned == [phase |-> "unspawned", first |-> TRUE, handler |-> "", step |-> 0,
              declared |-> 0, ctype |-> "", loaded |-> -1]

Accepting == [Unspawned EXCEPT !.phase = "accepting"]

EmptyBufs == [http |-> "", tx |-> << >>]

Serving(i) == slot[i].phase \notin {"unspawned", "accepting"}

ServingCount == Cardinality({i \in DOMAIN slot : Serving(i)})

\* the bytes slot i has streamed to its client
Body(i) == bufs[BufferOf(i)].tx

\* a client opens a connection to port 80
client_connect(max) ==
    /\ joinOk /\ configUp
    /\ pending + ServingCount < max
    /\ pending' = pending + 1
    /\ UNCHANGED << sensorVars, mainVars, configUp, slot, bufs, sent >>

\* Every accepting slot listens on port 80 and the stack hands a connection to
\* the first listening socket.  The slots are identical, so taking them in the
\* order of their ids loses no case up to a renaming of the slots.
Listener(i) ==
    /\ slot[i].phase = "accepting"
    /\ \A j \in DOMAIN slot : j < i => slot[j].phase # "accepting"

\* listen_and_serve: socket.accept(port) returned, the slot waits for a request
web_accept(i) ==
    /\ ~panicked
    /\ Listener(i)
    /\ wifiTask = "running" /\ netTask = "running"
    /\ pending > 0
    /\ pending' = pending - 1
    /\ slot' = [slot EXCEPT ![i] = [Accepting EXCEPT !.phase = "reading"]]
    /\ bufs' = [bufs EXCEPT ![BufferOf(i)] = EmptyBufs]
    /\ sent' = [sent EXCEPT ![i] = ""]
    /\ UNCHANGED << sensorVars, mainVars, configUp >>

\* the client's request arrives in time and is read into the slot's http_buffer
client_send(i) ==
    /\ slot[i].phase = "reading"
    /\ \E path \in Paths :
        /\ bufs' = [bufs EXCEPT ![BufferOf(i)] = [http |-> path, tx |-> << >>]]
        /\ sent' = [sent EXCEPT ![i] = path]
    /\ slot' = [slot EXCEPT ![i].phase = "dispatch", ![i].first = FALSE]
    /\ UNCHANGED << sensorVars, mainVars, configUp, pending >>

\* the request in http_buffer is routed; the response head declares the content
\* type and the content length of the handler's content
web_dispatch(i) ==
    /\ slot[i].phase = "dispatch"
    /\ LET handler == build_app(bufs[BufferOf(i)].http)
       IN slot' = [slot EXCEPT
               ![i].phase = "write",
               ![i].handler = handler,
               ![i].step = 0,
               ![i].loaded = -1,
               ![i].ctype = IF handler = "prometheus" THEN content_type
                            ELSE "text/plain; charset=utf-8",
               ![i].declared = IF handler = "prometheus" THEN content_length
                               ELSE IF handler = "hello" THEN Len(HelloWorld)
                               ELSE 0]
    /\ UNCHANGED << sensorVars, mainVars, configUp, bufs, pending, sent >>

\* one writer.write_all(..).await of the content returned Ok; the last write of
\* the Prometheus content loads ADC_VALUE first
web_write(i) ==
    /\ slot[i].phase = "write"
    /\ LET s == slot[i]
           b == BufferOf(i)
           last == IF s.handler = "prometheus" THEN s.step = LastWrite ELSE TRUE
           loads == s.handler = "prometheus" /\ LoadsAt(s.step)
           adc_value == IF loads THEN AtomicLoad(ADC_VALUE) ELSE s.loaded
           bytes == IF s.handler = "prometheus" THEN write_content(s.step, adc_value)
                    ELSE IF s.handler = "hello" THEN HelloWorld
                    ELSE << >>
       IN /\ bufs' = [bufs EXCEPT ![b].tx = @ \o bytes]
          /\ slot' = [slot EXCEPT ![i].loaded = adc_value,
                                  ![i].step = s.step + 1,
                                  ![i].phase = IF last THEN "sent" ELSE "write"]
          /\ ADC_VALUE' = IF loads THEN CellAfterLoad(ADC_VALUE) ELSE ADC_VALUE
    /\ UNCHANGED << lastPublished, lastResult, sensor, mainVars, configUp,
                    pending, sent >>

\* the response is flushed: keep_connection_alive lets the slot read the next
\* request of the connection, otherwise the connection is closed
web_finish(i) ==
    /\ slot[i].phase = "sent"
    /\ \E keep \in {TRUE, FALSE} :
        slot' = [slot EXCEPT ![i] =
                    IF keep THEN [Accepting EXCEPT !.phase = "reading", !.first = FALSE]
                    ELSE Accepting]
    /\ bufs' = [bufs EXCEPT ![BufferOf(i)] = EmptyBufs]
    /\ sent' = [sent EXCEPT ![i] = ""]
    /\ UNCHANGED << sensorVars, mainVars, configUp, pending >>

\* a listen loop that an error of the connection ends: the task returns
AfterServeReturn(result) == IF result = "ok" THEN "accepting" ELSE "returned"

\* listen_and_serve never returns (web_task is -> !): whatever serving the
\* connection ended with, the socket is closed and the loop accepts again
AfterServe(result) == "accepting"

\* the timeout that guards the wait for a request, if the Config sets one
ReadTimeout(first) == IF first THEN StartReadRequest ELSE PersistentStartReadRequest

\* no request arrived within the timeout: the connection is closed, the slot
\* accepts again
web_timeout(i) ==
    /\ slot[i].phase = "reading"
    /\ ReadTimeout(slot[i].first).some
    /\ slot' = [slot EXCEPT ![i] = [Accepting EXCEPT !.phase = AfterServe("timeout")]]
    /\ bufs' = [bufs EXCEPT ![BufferOf(i)] = EmptyBufs]
    /\ sent' = [sent EXCEPT ![i] = ""]
    /\ UNCHANGED << sensorVars, mainVars, configUp, pending >>

\* a read or write of the connection fails (reset, closed by the peer, write
\* timeout): serve returns Err, the slot accepts again
web_io_error(i) ==
    /\ Serving(i)
    /\ slot' = [slot EXCEPT ![i] = [Accepting EXCEPT !.phase = AfterServe("io_error")]]
    /\ bufs' = [bufs EXCEPT ![BufferOf(i)] = EmptyBufs]
    /\ sent' = [sent EXCEPT ![i] = ""]
    /\ UNCHANGED << sensorVars, mainVars, configUp, pending >>

----------------------------------------------------------------------------
(* main: the bring-up sequencer *)

\* the mode the radio is in when set_power_management has not been called
PowerManagementModeDefault == "PowerSave"

\* a call that asks for the power saving the radio is in already
PowerManagementModePowerSave == "PowerSave"

\* cyw43::PowerManagementMode::None of control.set_power_management
PowerManagementModeNone == "None"

EnvVars == {"WIFI_NETWORK", "WIFI_PASSWORD"}

\* core::option_env!(name) is Some(value) when the variable was set while the
\* crate was compiled and None when it was not: the build succeeds either way
option_env(name) == [some |-> env[name]]

\* Option::unwrap panics on None.  The two unwraps are argument expressions of
\* control.join: they are evaluated when main reaches the call, at run time.
JoinArgsPanic ==
    \/ ~option_env("WIFI_NETWORK").some
    \/ ~option_env("WIFI_PASSWORD").some

\* a join loop that stops retrying and goes on without a link
AfterJoinGiveUp(ok) == "config_poll"

\* a join loop that retries once and then goes on without a link
AfterJoinBounded(ok) == IF ok \/ joinFailures >= 1 THEN "config_poll" ELSE "join_sleep"

\* the loop around control.join: Ok breaks out, Err sleeps and retries
AfterJoin(ok) == IF ok THEN "config_poll" ELSE "join_sleep"

\* while !stack.is_config_up(): true leaves the loop, false sleeps and polls again
AfterPoll(up) == IF up THEN "spawn_web" ELSE "config_sleep"

\* for id in 0..=WEB_TASK_POOL_SIZE: one iteration more
SpawnLoopInclusive(id) == id <= WEB_TASK_POOL_SIZE

\* for id in 0..WEB_TASK_POOL_SIZE
SpawnLoopContinues(id) == id < WEB_TASK_POOL_SIZE

RECURSIVE SpawnLoop(_, _, _)
\* for id in 0..WEB_TASK_POOL_SIZE { spawner.must_spawn(web_task(id, ..)) }:
\* the slots, the spawn count and the id the loop ends with, and whether a
\* must_spawn panicked
SpawnLoop(id, slots, count) ==
    IF ~SpawnLoopContinues(id)
    THEN [slot |-> slots, count |-> count, id |-> id, panicked |-> FALSE]
    ELSE IF count >= PoolSize("web_task")
    THEN [slot |-> slots, count |-> count, id |-> id, panicked |-> TRUE]
    ELSE SpawnLoop(id + 1,
                   [i \in DOMAIN slots \cup {id} |->
                        IF i = id THEN Accepting ELSE slots[i]],
                   count + 1)

\* embassy_rp::init, the ADC channel, must_spawn(read_sensor), then cyw43::new
main_start ==
    /\ mainPc = "start"
    /\ IF SpawnFails("read_sensor")
       THEN /\ panicked' = TRUE
            /\ mainPc' = "panicked"
            /\ UNCHANGED << sensor, spawnCount >>
       ELSE /\ sensor' = [sensor EXCEPT !.pc = "read"]
            /\ spawnCount' = Spawned("read_sensor")
            /\ mainPc' = "radio_new"
            /\ UNCHANGED panicked
    /\ UNCHANGED << env, ADC_VALUE, lastPublished, lastResult, mainTimer, mainSlept,
                    joinAttempts, joinFailures, joinOk, configOk, configUp,
                    powerMode, wifiTask, netTask, webId, led, webVars >>

\* cyw43::new returned: must_spawn(wifi_task), then control.init
main_radio_new ==
    /\ mainPc = "radio_new"
    /\ IF SpawnFails("wifi_task")
       THEN /\ panicked' = TRUE
            /\ mainPc' = "panicked"
            /\ UNCHANGED << wifiTask, spawnCount >>
       ELSE /\ wifiTask' = RunnerRun
            /\ spawnCount' = Spawned("wifi_task")
            /\ mainPc' = "control_init"
            /\ UNCHANGED panicked
    /\ UNCHANGED << env, sensorVars, mainTimer, mainSlept, joinAttempts, joinFailures,
                    joinOk, configOk, configUp, powerMode, netTask, webId, led,
                    webVars >>

\* control.init(clm) returned (the runner in wifi_task serves it), then
\* control.set_power_management
main_control_init ==
    /\ mainPc = "control_init"
    /\ wifiTask = "running"
    /\ mainPc' = "set_power"
    /\ UNCHANGED << env, sensorVars, mainTimer, mainSlept, joinAttempts, joinFailures,
                    joinOk, configOk, configUp, powerMode, wifiTask, netTask,
                    spawnCount, panicked, webId, led, webVars >>

\* set_power_management(None) returned: embassy_net::new, must_spawn(net_task),
\* then the first control.join
main_set_power ==
    /\ mainPc = "set_power"
    /\ wifiTask = "running"
    /\ powerMode' = PowerManagementModeNone
    /\ IF SpawnFails("net_task")
       THEN /\ panicked' = TRUE
            /\ mainPc' = "panicked"
            /\ UNCHANGED << netTask, spawnCount >>
       ELSE /\ netTask' = RunnerRun
            /\ spawnCount' = Spawned("net_task")
            /\ panicked' = JoinArgsPanic
            /\ mainPc' = IF JoinArgsPanic THEN "panicked" ELSE "join"
    /\ UNCHANGED << env, sensorVars, mainTimer, mainSlept, joinAttempts, joinFailures,
                    joinOk, configOk, configUp, wifiTask, webId, led, webVars >>

\* The code from the evaluation of while !stack.is_config_up() to the next
\* .await: false arms the poll timer; true leaves the loop, builds the app and
\* the picoserve::Config, spawns the workers and calls control.gpio_set.
ConfigLoop ==
    /\ configOk' = configUp
    /\ IF AfterPoll(configUp) = "config_sleep"
       THEN /\ mainPc' = "config_sleep"
            /\ mainTimer' = ConfigPollDelay
            /\ UNCHANGED << slot, spawnCount, webId, panicked >>
       ELSE LET loop == SpawnLoop(0, slot, spawnCount["web_task"])
            IN /\ slot' = loop.slot
               /\ spawnCount' = [spawnCount EXCEPT !["web_task"] = loop.count]
               /\ webId' = loop.id
               /\ panicked' = loop.panicked
               /\ mainPc' = IF loop.panicked THEN "panicked" ELSE "gpio_set"
               /\ UNCHANGED mainTimer

\* control.join returned: Err arms the retry timer; Ok breaks out of the loop
\* and enters the configuration wait loop.  The radio fails at most
\* MaxJoinFailures times.
main_join ==
    /\ mainPc = "join"
    /\ wifiTask = "running"
    /\ \E ok \in {TRUE, FALSE} :
        /\ ~ok => joinFailures < MaxJoinFailures
        /\ joinAttempts' = joinAttempts + 1
        /\ joinFailures' = IF ok THEN joinFailures ELSE joinFailures + 1
        /\ joinOk' = ok
        /\ IF AfterJoin(ok) = "join_sleep"
           THEN /\ mainPc' = "join_sleep"
                /\ mainTimer' = JoinRetryDelay
                /\ UNCHANGED << configOk, slot, spawnCount, webId, panicked >>
           ELSE ConfigLoop
    /\ mainSlept' = 0
    /\ UNCHANGED << env, sensorVars, configUp, powerMode, wifiTask, netTask, led, bufs,
                    pending, sent >>

\* control.join returned Err after it had already failed MaxJoinFailures
\* times: the Err branch of main_join, with the history counters left at
\* their cap
main_join_again ==
    /\ mainPc = "join"
    /\ wifiTask = "running"
    /\ joinFailures = MaxJoinFailures
    /\ AfterJoin(FALSE) = "join_sleep"
    /\ mainPc' = "join_sleep"
    /\ mainTimer' = JoinRetryDelay
    /\ mainSlept' = 0
    /\ UNCHANGED << env, sensorVars, joinAttempts, joinFailures, joinOk, configOk,
                    configUp, powerMode, wifiTask, netTask, spawnCount, panicked,
                    webId, led, webVars >>

\* the retry timer elapsed: the loop calls control.join again
main_join_retry ==
    /\ mainPc = "join_sleep"
    /\ mainTimer = 0
    /\ panicked' = JoinArgsPanic
    /\ mainPc' = IF JoinArgsPanic THEN "panicked" ELSE "join"
    /\ mainSlept' = 0
    /\ UNCHANGED << env, sensorVars, mainTimer, joinAttempts, joinFailures,
                    joinOk, configOk, configUp, powerMode, wifiTask, netTask,
                    spawnCount, webId, led, webVars >>

\* the poll timer elapsed: the loop evaluates its condition again
main_config_retry ==
    /\ mainPc = "config_sleep"
    /\ mainTimer = 0
    /\ ConfigLoop
    /\ mainSlept' = 0
    /\ UNCHANGED << env, sensorVars, joinAttempts, joinFailures, joinOk, configUp,
                    powerMode, wifiTask, netTask, led, bufs, pending, sent >>

\* control.gpio_set(0, true) returned: the LED is on, main returns
main_gpio_set ==
    /\ mainPc = "gpio_set"
    /\ wifiTask = "running"
    /\ led' = TRUE
    /\ mainPc' = "done"
    /\ UNCHANGED << env, sensorVars, mainTimer, mainSlept, joinAttempts, joinFailures,
                    joinOk, configOk, configUp, powerMode, wifiTask, netTask,
                    spawnCount, panicked, webId, webVars >>

----------------------------------------------------------------------------
(* The specifications *)

\* the state at reset of the firmware that was built in the environment e
Boot(e) ==
    /\ ADC_VALUE = 0
    /\ lastPublished = 0
    /\ lastResult = "none"
    /\ sensor = [pc |-> "unspawned", timer |-> 0, slept |-> 0]
    /\ mainPc = "start"
    /\ mainTimer = 0
    /\ mainSlept = 0
    /\ joinAttempts = 0
    /\ joinFailures = 0
    /\ joinOk = FALSE
    /\ configOk = FALSE
    /\ configUp = FALSE
    /\ powerMode = PowerManagementModeDefault
    /\ wifiTask = "unspawned"
    /\ netTask = "unspawned"
    /\ spawnCount = [t \in {"read_sensor", "wifi_task", "net_task", "web_task"} |-> 0]
    /\ panicked = FALSE
    /\ env = e
    /\ webId = 0
    /\ led = FALSE
    /\ slot = [i \in Slots |-> Unspawned]
    /\ bufs = [b \in Slots |-> EmptyBufs]
    /\ pending = 0
    /\ sent = [i \in Slots |-> ""]

\* the firmware built with WIFI_NETWORK and WIFI_PASSWORD set
Init == Boot([v \in EnvVars |-> TRUE])

\* the firmware built in any environment: each variable set or not
BuildInit == \E e \in [EnvVars -> BOOLEAN] : Boot(e)

main ==
    \/ main_start
    \/ main_radio_new
    \/ main_control_init
    \/ main_set_power
    \/ main_join
    \/ main_join_retry
    \/ main_config_retry
    \/ main_gpio_set

read_sensor == read_sensor_read \/ read_sensor_wake

\* what a worker does with a request it has read
web_task_serve(i) == web_dispatch(i) \/ web_write(i) \/ web_finish(i)

Next ==
    \/ main
    \/ read_sensor
    \/ net_task
    \/ Tick
    \/ client_connect(MaxClients)
    \/ \E i \in DOMAIN slot : web_accept(i)
    \/ \E i \in DOMAIN slot : web_timeout(i)
    \/ \E i \in DOMAIN slot : web_io_error(i)
    \/ \E i \in DOMAIN slot : client_send(i)
    \/ \E i \in DOMAIN slot : web_dispatch(i)
    \/ \E i \in DOMAIN slot : web_write(i)
    \/ \E i \in DOMAIN slot : web_finish(i)

Spec == Init /\ [][Next]_vars

\* the bring-up while no client connects
BringUpNext ==
    \/ main
    \/ read_sensor
    \/ net_task
    \/ Tick

BringUpSpec == Init /\ [][BringUpNext]_vars

\* The executor polls every task that is ready, time passes and armed timers
\* fire.
BringUpFairSpec ==
    /\ Init /\ [][BringUpNext]_vars
    /\ WF_vars(main)
    /\ WF_vars(read_sensor)
    /\ WF_vars(net_task)
    /\ WF_vars(Tick)

\* The pool under up to PoolClients clients that connect and send nothing,
\* while the conversion the sampler waits for stays pending.
\* The bring-up where the radio may fail every join and the stack may never
\* get its configuration: the executor polls main and read_sensor when they
\* are ready and time passes, and nothing is assumed of the network.
RetryNext ==
    \/ BringUpNext
    \/ main_join_again

RetryFairSpec ==
    /\ Init /\ [][RetryNext]_vars
    /\ WF_vars(main \/ main_join_again)
    /\ WF_vars(read_sensor)
    /\ WF_vars(Tick)

\* the bring-up of the firmware, whatever environment it was built in
BuildSpec == BuildInit /\ [][BringUpNext]_vars

PoolNext ==
    \/ main
    \/ net_task
    \/ Tick
    \/ client_connect(PoolClients)
    \/ \E i \in DOMAIN slot : web_accept(i)
    \/ \E i \in DOMAIN slot : web_timeout(i)
    \/ \E i \in DOMAIN slot : web_io_error(i)

PoolSpec == Init /\ [][PoolNext]_vars

\* The same, where the executor polls every task that is ready and the
\* timeouts of picoserve fire.  No fairness is put on what clients do.
PoolFairSpec ==
    /\ PoolSpec
    /\ WF_vars(main)
    /\ WF_vars(net_task)
    /\ WF_vars(Tick)
    /\ \A i \in Slots : WF_vars(web_timeout(i))

\* The responder on every value the gauge can hold: the device is up, the
\* gauge holds any 16-bit value, and slot 0 has read a request.
RenderInit ==
    /\ \E path \in Paths :
        /\ ADC_VALUE \in (IF path = "/metrics" THEN 0 .. GaugeMax ELSE {0})
        /\ bufs = [b \in Slots |-> IF b = BufferOf(0)
                                   THEN [http |-> path, tx |-> << >>] ELSE EmptyBufs]
        /\ sent = [i \in Slots |-> IF i = 0 THEN path ELSE ""]
    /\ lastPublished = ADC_VALUE
    /\ lastResult = "ok"
    /\ sensor = [pc |-> "sleep", timer |-> SampleInterval, slept |-> 0]
    /\ mainPc = "done"
    /\ mainTimer = 0
    /\ mainSlept = 0
    /\ joinAttempts = 1
    /\ joinFailures = 0
    /\ joinOk = TRUE
    /\ configOk = TRUE
    /\ configUp = TRUE
    /\ powerMode = "None"
    /\ wifiTask = "running"
    /\ netTask = "running"
    /\ spawnCount = [t \in {"read_sensor", "wifi_task", "net_task", "web_task"} |->
                        PoolSize(t)]
    /\ panicked = FALSE
    /\ env = [v \in EnvVars |-> TRUE]
    /\ webId = WEB_TASK_POOL_SIZE
    /\ led = TRUE
    /\ slot = [i \in Slots |-> IF i = 0
                                THEN [Accepting EXCEPT !.phase = "dispatch",
                                                       !.first = FALSE]
                                ELSE Accepting]
    /\ pending = 0

\* The responder against the sampler: the device is up, the first adc.read is
\* still pending and nothing was published, slot 0 has read a request for
\* /metrics and slot 1 a request for any path.
RaceInit ==
    /\ ADC_VALUE = 0
    /\ lastPublished = 0
    /\ lastResult = "none"
    /\ sensor = [pc |-> "read", timer |-> 0, slept |-> 0]
    /\ mainPc = "done"
    /\ mainTimer = 0
    /\ mainSlept = 0
    /\ joinAttempts = 1
    /\ joinFailures = 0
    /\ joinOk = TRUE
    /\ configOk = TRUE
    /\ configUp = TRUE
    /\ powerMode = PowerManagementModeNone
    /\ wifiTask = RunnerRun
    /\ netTask = RunnerRun
    /\ spawnCount = [t \in {"read_sensor", "wifi_task", "net_task", "web_task"} |->
                        PoolSize(t)]
    /\ panicked = FALSE
    /\ env = [v \in EnvVars |-> TRUE]
    /\ webId = WEB_TASK_POOL_SIZE
    /\ led = TRUE
    /\ pending = 0
    /\ \E path \in Paths :
        /\ sent = [i \in Slots |-> IF i = 0 THEN "/metrics"
                                   ELSE IF i = 1 THEN path ELSE ""]
        /\ bufs = [b \in Slots |->
                    IF b = BufferOf(0) THEN [http |-> "/metrics", tx |-> << >>]
                    ELSE IF b = BufferOf(1) THEN [http |-> path, tx |-> << >>]
                    ELSE EmptyBufs]
    /\ slot = [i \in Slots |-> IF i \in {0, 1}
                                THEN [Accepting EXCEPT !.phase = "dispatch",
                                                       !.first = FALSE]
                                ELSE Accepting]

RaceNext ==
    \/ read_sensor
    \/ Tick
    \/ \E i \in DOMAIN slot : web_dispatch(i)
    \/ \E i \in DOMAIN slot : web_write(i)

RaceSpec == RaceInit /\ [][RaceNext]_vars

RenderNext ==
    \/ \E i \in DOMAIN slot : web_dispatch(i)
    \/ \E i \in DOMAIN slot : web_write(i)

RenderSpec == RenderInit /\ [][RenderNext]_vars

----------------------------------------------------------------------------
(* Properties *)

\* slot i completes the write_all that follows its load of ADC_VALUE
LoadStep(i) ==
    /\ slot[i].phase = "write"
    /\ slot[i].handler = "prometheus"
    /\ slot[i].step = LastWrite
    /\ slot'[i].phase = "sent"

\* C1: whatever the interleaving of read_sensor with the responders, a load of
\* ADC_VALUE returns the value of the most recent completed store, or the
\* default 0 when nothing was stored yet; never a value no store wrote.
C1_LoadReturnsLastPublished ==
    [][\A i \in DOMAIN slot : LoadStep(i) => slot'[i].loaded = lastPublished]_vars

\* a responder loaded 7, and the sampler has published 300 since
C1_Witness ==
    \E i \in DOMAIN slot :
        /\ slot[i].phase = "sent"
        /\ slot[i].loaded = 7
        /\ ADC_VALUE = 300

\* read_sensor completes an adc.read that returned Err
FailedAttempt == sensor.pc = "read" /\ sensor'.pc # "read" /\ lastResult' = "err"

\* C2: a sampling attempt that returns Err leaves the gauge as it was (a load
\* after it returns what a load before it returned), and the loop goes on: the
\* task sleeps the sample interval and then starts the next adc.read.
C2_FailedReadKeepsGauge ==
    /\ [][FailedAttempt =>
            /\ AtomicLoad(ADC_VALUE') = AtomicLoad(ADC_VALUE)
            /\ sensor'.pc = "sleep"
            /\ sensor'.timer = SampleInterval]_vars
    /\ [][sensor.pc = "sleep" /\ sensor'.pc # "sleep" => sensor'.pc = "read"]_vars
    /\ [](sensor.pc \in {"unspawned", "read", "sleep"})

\* a failed attempt after 300 was published, and the loop is at its next read
C2_Witness ==
    /\ lastResult = "err"
    /\ ADC_VALUE = 300
    /\ sensor.pc = "sleep"
    /\ sensor.timer = 0

AllSpawned ==
    /\ spawnCount["web_task"] = 8
    /\ \A i \in 0 .. 7 : i \in DOMAIN slot /\ slot[i].phase # "unspawned"

SomeSpawned ==
    \/ spawnCount["web_task"] > 0
    \/ \E i \in DOMAIN slot : slot[i].phase # "unspawned"

\* C3: with N failed joins followed by a successful one main makes exactly
\* N + 1 join attempts; every failed attempt is followed by a wait, and at
\* least 1 time unit passes before the next attempt; no attempt follows the
\* successful one; main is past the join loop only after the successful one.
C3_JoinRetry ==
    /\ [](joinAttempts = joinFailures + (IF joinOk THEN 1 ELSE 0))
    /\ [](mainPc \in {"config_sleep", "gpio_set", "done"} => joinOk)
    /\ [][(joinAttempts' # joinAttempts /\ ~joinOk') =>
            (mainPc' = "join_sleep" /\ mainTimer' = 1 /\ mainSlept' = 0)]_vars
    /\ [][(mainPc = "join_sleep" /\ mainPc' # "join_sleep") =>
            (mainPc' = "join" /\ mainSlept >= 1)]_vars
    /\ [][joinOk => (joinOk' /\ joinAttempts' = joinAttempts)]_vars

\* two failed joins, then the successful third one
C3_Witness ==
    /\ joinOk
    /\ joinFailures = 2
    /\ joinAttempts = 3
    /\ mainPc \in {"config_sleep", "gpio_set", "done"}

\* C4: while the join has not succeeded or is_config_up has not returned true
\* no web_task is spawned and the indicator is off; the indicator is on only
\* when all 8 workers have been spawned.
C4_ReadyOnlyAfterBringUp ==
    /\ (SomeSpawned \/ led) => (joinOk /\ configOk)
    /\ led => AllSpawned

\* the indicator is on, after a join that needed a retry
C4_Witness ==
    /\ led
    /\ AllSpawned
    /\ joinFailures >= 1

\* C5: main never gives up: as long as no join succeeded it is in the join
\* loop (attempting or waiting to retry), as long as is_config_up has not
\* returned true it is in the wait loop, whatever the number of failures; and
\* if a join succeeds and a poll returns true, the workers are spawned and the
\* indicator is set.
C5_RetryForever ==
    /\ []((mainPc \in {"join", "join_sleep"}) \/ joinOk \/ joinAttempts = 0)
    /\ []((joinOk /\ ~configOk) => mainPc = "config_sleep")
    /\ [](~panicked /\ (mainPc = "done" => (joinOk /\ configOk)))
    /\ ((<>joinOk /\ <>configOk) => <>(led /\ AllSpawned))

\* main is waiting to retry after the last failure the radio may report
C5_Witness ==
    /\ mainPc = "join_sleep"
    /\ joinFailures = MaxJoinFailures
    /\ ~joinOk

\* slot i has streamed the whole Prometheus content
MetricsSent(i) == slot[i].phase = "sent" /\ slot[i].handler = "prometheus"

\* C6: for every value the gauge can hold, the content length the responder
\* declares is the number of bytes write_content has streamed when it
\* completes: the header, the label and the 5 digits of the value.
C6_DeclaredLengthIsStreamedLength ==
    \A i \in DOMAIN slot :
        /\ slot[i].handler = "prometheus" /\ slot[i].phase \in {"write", "sent"} =>
                slot[i].declared = 68 + 25 + 5
        /\ MetricsSent(i) => Len(Body(i)) = slot[i].declared

\* the response for the largest value of the gauge is complete
C6_Witness ==
    \E i \in DOMAIN slot :
        /\ MetricsSent(i)
        /\ slot[i].loaded = 65535
        /\ Len(Body(i)) = 98

\* the bytes before the value in the body of GET /metrics
MetricsPrefix == <<
    35, 32, 72, 69, 76, 80, 32, 97, 100, 99, 95, 118, 97, 108, 117, 101,
    32, 84, 104, 101, 32, 118, 97, 108, 117, 101, 32, 114, 101, 97, 100, 32,
    102, 114, 111, 109, 32, 116, 104, 101, 32, 65, 68, 67, 10,
    35, 32, 84, 89, 80, 69, 32, 97, 100, 99, 95, 118, 97, 108, 117, 101, 32,
    103, 97, 117, 103, 101, 10,
    97, 100, 99, 95, 118, 97, 108, 117, 101, 123, 115, 101, 110, 115, 111, 114,
    61, 34, 77, 81, 45, 50, 34, 125, 32 >>

\* v as 5 decimal digits, zeros in front
FiveDigits(v) ==
    << 48 + ((v \div 10000) % 10), 48 + ((v \div 1000) % 10),
       48 + ((v \div 100) % 10), 48 + ((v \div 10) % 10), 48 + (v % 10) >>

\* C7: for every gauge value v the body of a GET /metrics response is the HELP
\* line, the TYPE line and adc_value{sensor="MQ-2"} followed by v as 5
\* zero-padded decimal digits, with nothing after them, and its content type
\* is text/plain; version=0.0.4.
C7_MetricsBody ==
    \A i \in DOMAIN slot :
        (slot[i].phase = "sent" /\ sent[i] = "/metrics") =>
            /\ slot[i].loaded = ADC_VALUE
            /\ Body(i) = MetricsPrefix \o FiveDigits(ADC_VALUE)
            /\ slot[i].ctype = "text/plain; version=0.0.4"

\* the gauge holds 7 and the body ends with 00007
C7_Witness ==
    \E i \in DOMAIN slot :
        /\ slot[i].phase = "sent"
        /\ sent[i] = "/metrics"
        /\ ADC_VALUE = 7
        /\ Body(i) = MetricsPrefix \o << 48, 48, 48, 48, 55 >>

\* C8: never more than 8 connections are accepted and being served, one per
\* worker slot; while 8 are being served, a further client that connects is
\* not accepted: an accept needs a slot that has returned to accepting.
C8_AtMostPoolSizeServed ==
    /\ ServingCount <= 8
    /\ (ServingCount = 8 /\ pending > 0) =>
            ~ENABLED (\E i \in DOMAIN slot : web_accept(i))
    /\ \A i \in DOMAIN slot : ENABLED web_accept(i) => slot[i].phase = "accepting"

\* 9 simultaneous clients: 8 are being served and the 9th waits
C8_Witness ==
    /\ ServingCount = 8
    /\ pending = 1

\* C9: a connection whose client sends nothing is closed by its slot when the
\* first-byte timeout has passed: a slot that waits for the first request of a
\* connection always comes back to accepting, where it can accept the next one.
C9_SilentClientTimesOut ==
    \A i \in 0 .. 7 :
        (i \in DOMAIN slot /\ slot[i].phase = "reading" /\ slot[i].first)
            ~> (slot[i].phase = "accepting")

\* a slot holds a connection whose client has sent nothing, and its timeout is armed
C9_Witness ==
    \E i \in DOMAIN slot :
        /\ slot[i].phase = "reading"
        /\ slot[i].first
        /\ sent[i] = ""
        /\ ENABLED web_timeout(i)

\* slot j is handling a request it has read
Handling(j) == slot[j].phase \in {"dispatch", "write", "sent"}

\* C10: two slots that serve connections at the same time use different
\* buffers: a slot finds in its buffers the request of its own client, a step
\* of another slot leaves its buffers as they are, and whatever the clients of
\* the other slots do (or fail to do), the slot can take the next step of its
\* own request.
C10_PoolIsolation ==
    /\ [](\A j \in DOMAIN slot : Handling(j) => bufs[BufferOf(j)].http = sent[j])
    /\ [][\A j \in DOMAIN slot :
            (Serving(j) /\ slot'[j] = slot[j]) =>
                bufs'[BufferOf(j)] = bufs[BufferOf(j)]]_vars
    /\ [](\A j \in DOMAIN slot : Handling(j) => ENABLED web_task_serve(j))

\* one slot streams the metrics while another one holds the request for "/"
C10_Witness ==
    \E i, j \in DOMAIN slot :
        /\ i # j
        /\ slot[i].phase = "write" /\ sent[i] = "/metrics" /\ Len(Body(i)) > 0
        /\ slot[j].phase = "dispatch" /\ sent[j] = "/"

\* the phases of a spawned worker: accepting, and the phases of serving
WorkerCycle == {"accepting", "reading", "dispatch", "write", "sent"}

\* the connection of slot i ends by a timeout or by a failed read or write
ConnectionFails(i) == web_timeout(i) \/ web_io_error(i)

\* C11: a timeout or an I/O error of the connection a slot serves, in whatever
\* phase of serving it, closes that connection and puts the slot back to
\* accepting; a worker that was spawned never leaves the cycle accepting ->
\* serving -> accepting, so the task never terminates.
C11_ErrorClosesConnection ==
    /\ [][\A i \in DOMAIN slot :
            ConnectionFails(i) =>
                /\ slot'[i].phase = "accepting"
                /\ bufs'[BufferOf(i)] = EmptyBufs
                /\ sent'[i] = ""]_vars
    /\ [](\A i \in DOMAIN slot : slot[i].phase \in WorkerCycle \cup {"unspawned"})
    /\ [][\A i \in DOMAIN slot :
            slot[i].phase \in WorkerCycle => slot'[i].phase \in WorkerCycle]_vars
    /\ [](\A i \in DOMAIN slot : Serving(i) => ENABLED web_io_error(i))

\* Slot 1 is in the middle of streaming a response, where a write can fail,
\* while slot 0 accepts again: slot 1 is handed a connection only while slot 0
\* serves one, so slot 0 has closed a connection since.
C11_Witness ==
    /\ slot[0].phase = "accepting"
    /\ slot[1].phase = "write"
    /\ Len(Body(1)) > 0
    /\ ENABLED web_io_error(1)

\* read_sensor completes an adc.read that returned Ok and stores the value
SuccessfulStore ==
    /\ sensor.pc = "read"
    /\ sensor'.pc = "sleep"
    /\ lastResult' = "ok"
    /\ ADC_VALUE' = lastPublished'

\* a step of any component but the sampling task
OtherComponentStep ==
    \/ main
    \/ net_task
    \/ Tick
    \/ client_connect(MaxClients)
    \/ \E i \in DOMAIN slot :
            \/ web_accept(i) \/ client_send(i) \/ web_dispatch(i) \/ web_write(i)
            \/ web_finish(i) \/ web_timeout(i) \/ web_io_error(i)

\* C12: the gauge has one writer.  A step that changes ADC_VALUE is the store
\* of read_sensor after an adc.read that returned Ok; the steps of the
\* responder and the workers, of main, of the drivers and of time, and a
\* failed adc.read, leave ADC_VALUE as it is.
C12_SingleWriter ==
    /\ [][ADC_VALUE' # ADC_VALUE => SuccessfulStore]_vars
    /\ [][OtherComponentStep => ADC_VALUE' = ADC_VALUE]_vars
    /\ [][FailedAttempt => ADC_VALUE' = ADC_VALUE]_vars

\* the sampler has published 300, a responder has loaded it and streamed its
\* response, main has returned: the gauge still holds 300
C12_Witness ==
    /\ ADC_VALUE = 300
    /\ lastResult = "ok"
    /\ mainPc = "done"
    /\ \E i \in DOMAIN slot : MetricsSent(i) /\ slot[i].loaded = 300

\* C13: when WIFI_NETWORK or WIFI_PASSWORD was not set at build time the
\* failure is one of the build and not of the run: the program never starts,
\* it spawns no task, does no radio initialisation and does not panic.
C13_AbsentCredentialNeverRuns ==
    JoinArgsPanic =>
        /\ mainPc = "start"
        /\ \A t \in DOMAIN spawnCount : spawnCount[t] = 0
        /\ sensor.pc = "unspawned"
        /\ wifiTask = "unspawned"
        /\ netTask = "unspawned"
        /\ powerMode = "PowerSave"
        /\ ~panicked

\* built without WIFI_PASSWORD, the firmware has spawned read_sensor, wifi_task
\* and net_task, has initialised the radio and set its power mode, and has
\* panicked at its first call of control.join
C13_RuntimePanic ==
    /\ ~env["WIFI_PASSWORD"]
    /\ panicked
    /\ mainPc = "panicked"
    /\ spawnCount = [t \in DOMAIN spawnCount |-> IF t = "web_task" THEN 0 ELSE 1]
    /\ powerMode = "None"
    /\ joinAttempts = 0

\* main is in one of its two retry loops
Retrying == mainPc \in {"join", "join_sleep", "config_sleep"}

\* C14: read_sensor is spawned before the bring-up starts, and it goes on
\* reading and sleeping whatever main does: also in the executions in which
\* the join loop or the configuration wait loop retries forever, the sampler
\* completes a read again and again.
C14_SamplerIndependent ==
    /\ [](mainPc # "start" => sensor.pc # "unspawned")
    /\ []<>(sensor.pc = "read")
    /\ []<><<read_sensor_read>>_vars
    /\ (<>[]Retrying => []<><<read_sensor_read>>_vars)

\* main sleeps in its configuration wait loop after MaxJoinFailures failed
\* joins, and since it fell asleep the sampler has completed a read and
\* published 300
C14_Witness ==
    /\ mainPc = "config_sleep"
    /\ joinFailures = MaxJoinFailures
    /\ mainSlept >= 1
    /\ sensor.pc = "sleep" /\ sensor.slept = 0
    /\ lastResult = "ok"
    /\ ADC_VALUE = 300

\* read_sensor completes an adc.read, whatever it returned
Acquisition == sensor.pc = "read" /\ sensor'.pc # "read"

\* read_sensor starts the next adc.read
NextAcquisition == sensor.pc = "sleep" /\ sensor'.pc = "read"

\* C15: every adc.read that completes, Ok or Err, is followed by the sleep of
\* 2 time units, and the next adc.read starts only when these 2 time units
\* have passed: a failed read is not retried at once and no two reads are
\* closer than the interval.
C15_SleepBetweenAcquisitions ==
    /\ [][Acquisition =>
            /\ lastResult' \in {"ok", "err"}
            /\ sensor' = [pc |-> "sleep", timer |-> 2, slept |-> 0]]_vars
    /\ [][NextAcquisition => sensor.slept >= 2 /\ sensor.timer = 0]_vars
    /\ [](sensor.pc = "sleep" => sensor.timer + sensor.slept >= 2)
    /\ []((sensor.pc = "sleep" /\ sensor.slept < 2) => ~ENABLED read_sensor)

\* the 2 time units after a failed read have passed and the next read can start
C15_Witness ==
    /\ sensor.pc = "sleep"
    /\ lastResult = "err"
    /\ sensor.slept = 2
    /\ ENABLED read_sensor_wake

\* control.init has returned
RadioInitialised == mainPc \notin {"start", "radio_new", "control_init"}

\* control.join has been called at least once
JoinCalled ==
    \/ mainPc \in {"join", "join_sleep", "config_sleep", "gpio_set", "done"}
    \/ joinAttempts > 0

\* C16: the bring-up keeps its order.  The power mode is changed only by the
\* step in which set_power_management returns, which comes after control.init
\* has returned; it is PowerManagementMode::None from then on, so it is None
\* at the first call of control.join and at every later one, and nothing
\* changes it again.
C16_BringUpOrder ==
    /\ [][powerMode' # powerMode =>
            /\ mainPc = "set_power"
            /\ powerMode' = "None"]_vars
    /\ [][mainPc' = "set_power" /\ mainPc # "set_power" => mainPc = "control_init"]_vars
    /\ [](powerMode = "None" => RadioInitialised /\ mainPc # "set_power")
    /\ [](JoinCalled => powerMode = "None")
    /\ [][joinAttempts' # joinAttempts => powerMode = "None"]_vars
    /\ [][powerMode = "None" => powerMode' = "None"]_vars

\* every join the radio may fail has failed, one has succeeded, main has
\* returned: the power mode is the one set before the first join
C16_Witness ==
    /\ mainPc = "done"
    /\ joinAttempts = MaxJoinFailures + 1
    /\ powerMode = "None"

\* main evaluates stack.is_config_up(): when control.join has returned Ok, and
\* when the timer of the wait loop has elapsed
PollStep == (main_join /\ joinOk') \/ main_config_retry

\* C17: the two waits come one after the other.  is_config_up is evaluated
\* only when a join has succeeded; a poll that returns false arms a timer of
\* 1 time unit and the next poll comes when that time has passed, not before;
\* the first poll that returns true ends the loop, after it there is no poll
\* and no join attempt.
C17_SequentialWaits ==
    /\ [][PollStep => joinOk' /\ configOk' = configUp]_vars
    /\ [][PollStep /\ ~configUp =>
            /\ mainPc' = "config_sleep"
            /\ mainTimer' = 1
            /\ mainSlept' = 0]_vars
    /\ [][PollStep /\ configUp => mainPc' = "gpio_set"]_vars
    /\ [][main_config_retry => mainPc = "config_sleep" /\ mainSlept >= 1]_vars
    /\ [](mainPc = "config_sleep" => mainTimer + mainSlept >= 1)
    /\ []((mainPc = "config_sleep" /\ mainSlept >= 1) => ENABLED main_config_retry)
    /\ [][mainPc = "config_sleep" /\ mainPc' # "config_sleep" =>
            main_config_retry /\ configUp]_vars
    /\ [][configOk => ~PollStep]_vars
    /\ [][joinOk => joinAttempts' = joinAttempts]_vars
    /\ [](joinOk => mainPc \notin {"join", "join_sleep"})

\* the poll after the join returned false, the wait of 1 time unit is over and
\* the configuration has come up meanwhile: the next poll will return true
C17_Witness ==
    /\ mainPc = "config_sleep"
    /\ joinOk /\ ~configOk
    /\ mainTimer = 0 /\ mainSlept = 1
    /\ configUp
    /\ ENABLED main_config_retry

\* main is at or past the await of control.init, the first awaited operation
\* of the radio's control handle
ControlAwaited ==
    mainPc \in {"control_init", "set_power", "join", "join_sleep", "config_sleep",
                "gpio_set", "done"}

\* C18: the drivers run before main waits for anything they have to serve.
\* wifi_task is running when main awaits control.init, set_power_management,
\* join and gpio_set; net_task is running when control.join is first called
\* and at every poll of is_config_up; a driver task that runs never stops
\* running.
C18_DriversRunFirst ==
    /\ [](ControlAwaited => wifiTask = "running")
    /\ [](JoinCalled => netTask = "running" /\ wifiTask = "running")
    /\ [][joinAttempts' # joinAttempts =>
            wifiTask = "running" /\ netTask = "running"]_vars
    /\ [][PollStep => netTask = "running"]_vars
    /\ [](wifiTask \in {"unspawned", "running"} /\ netTask \in {"unspawned", "running"})
    /\ [][wifiTask = "running" => wifiTask' = "running"]_vars
    /\ [][netTask = "running" => netTask' = "running"]_vars

\* main waits in the configuration loop after a poll that returned false, both
\* drivers run
C18_Witness ==
    /\ mainPc = "config_sleep"
    /\ joinAttempts >= 1
    /\ ~configUp
    /\ wifiTask = "running"
    /\ netTask = "running"

\* the ids of the web_task instances that have been spawned
SpawnedIds == {i \in DOMAIN slot : slot[i].phase # "unspawned"}

SingleTasks == {"read_sensor", "wifi_task", "net_task"}

\* C19: main spawns 8 web_task instances, one for each id of 0..7 and none
\* twice; never more web_task instances are spawned than the pool of 8 holds,
\* so that no must_spawn panics; read_sensor, wifi_task and net_task are
\* spawned once each.
C19_SpawnCounts ==
    /\ [](spawnCount["web_task"] <= 8 /\ ~panicked /\ mainPc # "panicked")
    /\ [](Cardinality(SpawnedIds) = spawnCount["web_task"])
    /\ [](SpawnedIds \in {{}, 0 .. 7})
    /\ [](mainPc \in {"gpio_set", "done"} =>
            /\ SpawnedIds = 0 .. 7
            /\ spawnCount["web_task"] = 8
            /\ webId = 8
            /\ \A t \in SingleTasks : spawnCount[t] = 1)
    /\ [][spawnCount'["web_task"] # spawnCount["web_task"] =>
            spawnCount["web_task"] = 0 /\ spawnCount'["web_task"] = 8]_vars
    /\ [](\A t \in SingleTasks : spawnCount[t] <= 1)
    /\ [][\A t \in DOMAIN spawnCount : spawnCount'[t] >= spawnCount[t]]_vars
    /\ [](spawnCount["read_sensor"] = 1 <=> mainPc # "start")
    /\ [](spawnCount["wifi_task"] = 1 <=> wifiTask = "running")
    /\ [](spawnCount["net_task"] = 1 <=> netTask = "running")

\* the spawn loop has run: 8 workers with the ids 0..7 listen, control.gpio_set
\* is awaited
C19_Witness ==
    /\ mainPc = "gpio_set"
    /\ webId = 8
    /\ spawnCount = [t \in DOMAIN spawnCount |-> IF t = "web_task" THEN 8 ELSE 1]
    /\ \A i \in 0 .. 7 : slot[i].phase = "accepting"

\* slot i streams the Prometheus content and has not reached the load
BeforeLoad(i) ==
    /\ slot[i].phase = "write"
    /\ slot[i].handler = "prometheus"

\* C20: the sampler may publish any number of values between the moment the
\* content length of a /metrics response is declared and the moment
\* write_content loads the gauge, after the header and the label are written.
\* The load happens once; the 5 digits that are streamed are those of the
\* value the gauge holds at that load, whole; and the number of bytes
\* streamed is the length that was declared.
C20_LengthSurvivesPublishing ==
    /\ [](\A i \in DOMAIN slot : BeforeLoad(i) => slot[i].loaded = -1)
    /\ [][\A i \in DOMAIN slot :
            LoadStep(i) =>
                /\ slot'[i].loaded = ADC_VALUE
                /\ bufs'[BufferOf(i)].tx = bufs[BufferOf(i)].tx \o FiveDigits(ADC_VALUE)
                /\ slot'[i].declared = slot[i].declared]_vars
    /\ [](\A i \in DOMAIN slot :
            MetricsSent(i) =>
                /\ slot[i].loaded \in {0} \cup SensorValues
                /\ Body(i) = MetricsPrefix \o FiveDigits(slot[i].loaded)
                /\ Len(Body(i)) = slot[i].declared)

\* The gauge held 0 when the length of slot 0's response was declared; the
\* sampler has published since, and the body ends with 00300, the value at
\* the load; the sampler has then published 7.
C20_Witness ==
    /\ MetricsSent(0)
    /\ slot[0].loaded = 300
    /\ Body(0) = MetricsPrefix \o << 48, 48, 51, 48, 48 >>
    /\ Len(Body(0)) = slot[0].declared
    /\ ADC_VALUE = 7

====
